---- MODULE Spec2Model ----
(***************************************************************************)
(* Hydraulic engine (core/hidraulica.py), segment registry                 *)
(* (core/tramos.py) and the energy trace of the piezometric map            *)
(* (visualizaciones/mapa_piezometrico.py).                                 *)
(*                                                                         *)
(* Numbers.  The program computes with floats; the model computes with     *)
(* exact integers on a fixed grid, i.e. with the real-number meaning of    *)
(* the formulas:                                                           *)
(*   lengths, distances, diameters   millimetres                           *)
(*   areas                           mm^2                                  *)
(*   flow Q                          mm^3/s                                *)
(*   velocity                        mm/s                                  *)
(*   heads, elevations, energies     1/Milimetro of a millimetre           *)
(*   friction factors                twentieths (FDen)                     *)
(*   fitting coefficients K          thousandths (KDen)                    *)
(*   power                           rho * Q * H in units of one           *)
(*                                   CaudalUnidad of flow (the positive    *)
(*                                   factor g/1000 is part of the unit)    *)
(* The inputs are chosen on the grid so that every quotient the code       *)
(* forms is an integer; AritmeticaExacta states this and is checked.       *)
(* Products and quotients are taken in an order that keeps the             *)
(* intermediate values in range; with exact quotients the order does not   *)
(* change the value.                                                       *)
(*                                                                         *)
(* The logarithms, powers and the root finder of the friction              *)
(* correlations are library code: what they return for Re > 0 is the       *)
(* record numlib, chosen once per parameter set (the same arguments give   *)
(* the same value in every segment).                                       *)
(***************************************************************************)
EXTENDS Integers, Sequences, FiniteSets, TLC

VARIABLES
  Q, D, rho, mu, epsilon,      \* the five scalar parameters
  numlib,                      \* numpy/scipy outcomes for Re > 0
  pc,                          \* position of the caller
  resultados,                  \* calcular_sistema_completo's return value
  excepcion,                   \* exception raised to the caller, or "none"
  directo,                     \* direct calls of calcular_tramo: <<args, result>>
  previo,                      \* outcome of the system solver's previous call, if any
  llamadas,                    \* calls of the system solver made so far
  residuo,                     \* evaluations of Colebrook's residual: proposal and outcome
  puntos,                      \* obtener_elevaciones_acumuladas' return value
  tanque_rompe_presion,        \* optional registry keys read by the trace: tramo -> flag
  dist_puntos, elev_puntos, egl_puntos, hgl_puntos, presion_puntos, etiquetas,
  dist_acum, elev_acum, energia_actual,
  bombas_x, bombas_y_antes, bombas_y_despues, bombas_label,
  valvulas_x, valvulas_y, valvulas_label,
  hv,                          \* resultados[1]['carga_cinetica']
  num_tramo, est, j, x_inicio, \* loop positions of the trace
  bitacora                     \* history: the trace's appends, in order

entradas == <<Q, D, rho, mu, epsilon, numlib>>
motor    == <<resultados, excepcion, directo, previo, llamadas, residuo>>
perfil   == <<dist_puntos, elev_puntos, egl_puntos, hgl_puntos, presion_puntos, etiquetas>>
bombas   == <<bombas_x, bombas_y_antes, bombas_y_despues, bombas_label>>
valvulas == <<valvulas_x, valvulas_y, valvulas_label>>
acum     == <<dist_acum, elev_acum, energia_actual>>
bucle    == <<hv, num_tramo, est, j, x_inicio>>
traza    == <<tanque_rompe_presion, perfil, bombas, valvulas, acum, bucle, bitacora>>
vars     == <<entradas, pc, motor, traza, puntos>>

(***************************************************************************)
(* Grid and bounds                                                         *)
(***************************************************************************)
g == 9810                 \* 9.81 m/s^2 in mm/s^2
PiNum == 22               \* np.pi as PiNum / PiDen
PiDen == 7
n_puntos_sub == 5
HpNum == 7457             \* 0.7457 kW per HP, in ten-thousandths
HpDen == 10 * 1000
FDen == 2 * 10            \* friction factors are counted in twentieths
KDen == 10 * 100          \* K in thousandths
DRef == 10 * 7            \* mm; a multiple of 2 PiDen and of 10 keeps areas and heads on the grid
Milimetro == DRef         \* head units per millimetre
Metro == 1000 * Milimetro \* head units per metre
VRef == 2 * 3270          \* mm/s; VRef^2 / (2 g) = 2180 mm exactly

MaxF == 2                 \* friction factors returned by the library: 1..MaxF twentieths
MaxRho == 1               \* densities 1..MaxRho (g/cm^3)
MaxLlamadas == 2          \* calls of the system solver with the same parameters
MaxPropuestas == 2        \* proposals on which the root finder evaluates the residual

Abs(x) == IF x < 0 THEN -x ELSE x

\* Quotient a / b for b # 0 (exact on the grid; the sign of b is handled
\* so that the quotient of -a by -b is the quotient of a by b).
Div(a, b) == IF b < 0 THEN (-a) \div (-b) ELSE a \div b

Exacta(a, b) == b # 0 /\ a % Abs(b) = 0

(***************************************************************************)
(* core/tramos.py: the registry.  distancia and longitud_tuberia in mm,    *)
(* altura and z in head units, pendiente in hundredths of a degree, K in   *)
(* thousandths.  Python's None is the string "None".                       *)
(***************************************************************************)
\* a sub-segment's 'altura': a number, or None
None == <<>>
Altura(x) == <<x>>

Tramo1 ==
  [ distancia |-> 182530,
    altura |-> 100 * Metro,
    pendiente |-> 2872,
    longitud_tuberia |-> 211130,
    z |-> 100 * Metro,
    num_estaciones |-> 1,
    es_bajada |-> FALSE,
    tipo |-> "bomba",
    accesorios |-> <<
       [nombre |-> "Entrada al rio (proyectada)", cantidad |-> 1, K |-> 500],
       [nombre |-> "Codos de 30 grados", cantidad |-> 2, K |-> 120],
       [nombre |-> "Valvula de retencion columpio", cantidad |-> 0, K |-> 0],
       [nombre |-> "Valvula de compuerta", cantidad |-> 0, K |-> 0],
       [nombre |-> "Salida a tanque receptor", cantidad |-> 1, K |-> 1000]>>,
    K_total |-> 1620,
    notas |-> "Captacion desde el rio, subida inicial de 100 m." ]

Tramo2 ==
  [ distancia |-> 112390,
    altura |-> 200 * Metro,
    pendiente |-> 6067,
    longitud_tuberia |-> 235420,
    z |-> 200 * Metro,
    num_estaciones |-> 2,
    es_bajada |-> FALSE,
    tipo |-> "bomba",
    accesorios |-> <<
       [nombre |-> "Succion de tanque previo", cantidad |-> 1, K |-> 500],
       [nombre |-> "Codos de 60 grados", cantidad |-> 2, K |-> 375],
       [nombre |-> "Valvula de retencion columpio", cantidad |-> 0, K |-> 1500],
       [nombre |-> "Valvula de compuerta", cantidad |-> 0, K |-> 120],
       [nombre |-> "Salida a tanque receptor", cantidad |-> 1, K |-> 1000]>>,
    K_total |-> 3870,
    notas |-> "2 estaciones de bombeo. Pendiente pronunciada (60.67 grados)." ]

Tramo3 ==
  [ distancia |-> 163870,
    altura |-> 200 * Metro,
    pendiente |-> 5067,
    longitud_tuberia |-> 264560,
    z |-> 200 * Metro,
    num_estaciones |-> 2,
    es_bajada |-> FALSE,
    tipo |-> "bomba",
    accesorios |-> <<
       [nombre |-> "Salida de tanque previo", cantidad |-> 1, K |-> 500],
       [nombre |-> "Codos de 51 grados", cantidad |-> 2, K |-> 280],
       [nombre |-> "Valvula de retencion columpio", cantidad |-> 0, K |-> 1500],
       [nombre |-> "Valvula de compuerta", cantidad |-> 0, K |-> 120],
       [nombre |-> "Salida a tanque receptor", cantidad |-> 1, K |-> 1000]>>,
    K_total |-> 3680,
    notas |-> "2 estaciones de bombeo. Cima de la montana." ]

Tramo4 ==
  [ distancia |-> 251550,
    altura |-> 0 * Metro,
    pendiente |-> 0,
    longitud_tuberia |-> 254550,
    z |-> 0 * Metro,
    num_estaciones |-> 1,
    es_bajada |-> FALSE,
    tipo |-> "bomba",
    accesorios |-> <<
       [nombre |-> "Salida de tanque previo", cantidad |-> 1, K |-> 500],
       [nombre |-> "Codos de 90 grados (arreglo al suelo)", cantidad |-> 2, K |-> 450],
       [nombre |-> "Valvula de retencion columpio", cantidad |-> 0, K |-> 1500],
       [nombre |-> "Valvula de compuerta", cantidad |-> 0, K |-> 120],
       [nombre |-> "Salida a tanque receptor", cantidad |-> 1, K |-> 1000]>>,
    K_total |-> 4020,
    notas |-> "Tramo plano. Bomba de 2 kW para evitar sobrecarga." ]

\* segment 5 as a level segment flagged as descending
Tramo5_sin_desnivel == [Tramo4 EXCEPT !.es_bajada = TRUE]

Tramo5 ==
  [ distancia |-> 129050,
    altura |-> (-200) * Metro,
    pendiente |-> -5717,
    longitud_tuberia |-> 235020,
    z |-> 0 * Metro,
    num_estaciones |-> 1,
    es_bajada |-> TRUE,
    tipo |-> "valvula de estrangulamiento",
    accesorios |-> <<
       [nombre |-> "Salida de tanque previo", cantidad |-> 1, K |-> 500],
       [nombre |-> "Codos de angulo dado", cantidad |-> 2, K |-> 350],
       [nombre |-> "Valvula de compuerta", cantidad |-> 0, K |-> 120],
       [nombre |-> "Salida a tanque receptor", cantidad |-> 1, K |-> 1000]>>,
    K_total |-> 2310,
    notas |-> "Bajada gravitacional. Valvula de estrangulamiento controla velocidad a 1.34 m/s." ]

Tramo6 ==
  [ distancia |-> 71330,
    altura |-> (-200) * Metro,
    pendiente |-> -7037,
    longitud_tuberia |-> 209340,
    z |-> 0 * Metro,
    num_estaciones |-> 1,
    es_bajada |-> TRUE,
    tipo |-> "valvula de estrangulamiento",
    accesorios |-> <<
       [nombre |-> "Salida de tanque previo", cantidad |-> 1, K |-> 500],
       [nombre |-> "Codos de angulo dado", cantidad |-> 2, K |-> 530],
       [nombre |-> "Valvula de compuerta", cantidad |-> 0, K |-> 120],
       [nombre |-> "Salida a tanque receptor", cantidad |-> 1, K |-> 1000]>>,
    K_total |-> 2680,
    K_valvula_estrangulamiento |-> 1077420,
    notas |-> "Bajada pronunciada (70.37 grados). K de estrangulamiento = 1077.42." ]

Tramo7 ==
  [ distancia |-> 57600,
    altura |-> (-100) * Metro,
    pendiente |-> -6006,
    longitud_tuberia |-> 112400,
    z |-> 0 * Metro,
    num_estaciones |-> 1,
    es_bajada |-> TRUE,
    tipo |-> "valvula de estrangulamiento",
    accesorios |-> <<
       [nombre |-> "Salida de tanque previo", cantidad |-> 1, K |-> 500],
       [nombre |-> "Codos de 60 grados", cantidad |-> 2, K |-> 380],
       [nombre |-> "Valvula de compuerta", cantidad |-> 0, K |-> 120],
       [nombre |-> "Salida a tanque receptor", cantidad |-> 1, K |-> 1000]>>,
    K_total |-> 2370,
    K_valvula_estrangulamiento |-> 1076840,
    notas |-> "Bajada final a zona plana. K de estrangulamiento = 1076.84." ]

Tramo8 ==
  [ distancia |-> 1837500,
    altura |-> 100 * Metro,
    pendiente |-> 0,
    longitud_tuberia |-> 1911520,
    z |-> 100 * Metro,
    num_estaciones |-> 1,
    es_bajada |-> FALSE,
    tipo |-> "bomba",
    accesorios |-> <<
       [nombre |-> "Entrada al tanque", cantidad |-> 1, K |-> 500],
       [nombre |-> "Codos de 90 grados", cantidad |-> 4, K |-> 450],
       [nombre |-> "Codos de 60 grados", cantidad |-> 2, K |-> 375],
       [nombre |-> "Valvula de compuerta", cantidad |-> 1, K |-> 120],
       [nombre |-> "Valvula de retencion", cantidad |-> 1, K |-> 1500],
       [nombre |-> "Salida a tanque en empresa", cantidad |-> 1, K |-> 1000]>>,
    K_total |-> 5670,
    notas |-> "Tramo subterraneo. Cruza carretera (700 m). 4 codos de 90 grados + 2 de 60 grados.",
    sub_segmentos |-> <<
       [nombre |-> "Distancia previa a carretera", distancia |-> 250000, altura |-> Altura(0 * Metro)],
       [nombre |-> "Bajada", distancia |-> 0, altura |-> Altura((-10) * Metro)],
       [nombre |-> "Tuberia subterranea", distancia |-> 312500, altura |-> Altura((-10) * Metro)],
       [nombre |-> "Cambio de direccion", distancia |-> 25000, altura |-> Altura((-10) * Metro)],
       [nombre |-> "Distancia subterranea", distancia |-> 1187500, altura |-> Altura((-10) * Metro)],
       [nombre |-> "Subida a empresa", distancia |-> 62500, altura |-> Altura(100 * Metro)],
       [nombre |-> "Tramo de subida", distancia |-> 126520, altura |-> None]>> ]

obtener_definicion_tramos ==
  <<Tramo1, Tramo2, Tramo3, Tramo4, Tramo5, Tramo6, Tramo7, Tramo8>>

(***************************************************************************)
(* core/hidraulica.py                                                      *)
(***************************************************************************)
\* A = pi D^2 / 4
area_seccion(Dd) == Div(PiNum * Dd * Dd, PiDen * 4)

\* The flow that gives VRef in a pipe of diameter DRef; also the unit of
\* flow in which power is counted.
CaudalUnidad == VRef * area_seccion(DRef)

\* v = Q / A (the caller has A # 0; Python raises ZeroDivisionError otherwise)
velocidad(Qq, A) == Div(Qq, A)

\* hv = v^2 / (2 g), in head units
carga_cinetica(v) == Div(v * v, 2 * g) * Milimetro

\* Re = rho v D / mu (the caller has mu # 0)
reynolds(r, v, Dd, m) == Div(r * v * Dd, m)

\* f_haaland without the guard of line 51
f_haaland_sin_guarda(Re, eps, Dd) == numlib.haaland

\* 1 / (-1.8 log10((eps/D/3.7)^1.11 + 6.9/Re))^2 for Re > 0: numpy's value
f_haaland(Re, eps, Dd) == IF Re <= 0 THEN 0 ELSE numlib.haaland

\* `return 1.0` of line 75
Penalizacion == 1
RaizDen == 2 * 5          \* square roots are counted in tenths

\* np.sqrt of f twentieths, in tenths, for the f whose root is on the grid
np_sqrt(f) == CHOOSE r \in 0..(2 * RaizDen) : FDen * r * r = f * RaizDen * RaizDen

\* epsilon / D / 3.7 + 2.51 / (Re * np.sqrt(f)), the argument of np.log10,
\* as its two terms, each a fraction <<numerator, denominator>> (epsilon in
\* micrometres, D in millimetres)
Argumento(f, Re, eps, Dd) ==
  [ rugosa  |-> <<10 * eps, 37 * 1000 * Dd>>,
    viscosa |-> <<251 * RaizDen, 100 * Re * np_sqrt(f)>> ]

\* a residual that takes the penalty for f < 0 only: at f = 0 it evaluates
\* np.sqrt(0), divides by it and takes the logarithm of the result
ecuacion_guarda_estricta(f, Re, eps, Dd) ==
  IF f < 0
  THEN [valor |-> Penalizacion, dos_log10 |-> {}, sqrt |-> {}]
  ELSE [valor |-> IF np_sqrt(f) = 0 THEN 0 ELSE Div(RaizDen, np_sqrt(f)),
        dos_log10 |-> {Argumento(f, Re, eps, Dd)},
        sqrt |-> {f}]

\* lines 73-77, the closure of f_colebrook.  The value returned is
\* valor + 2 log10(x) for the x of dos_log10 (none: valor alone); sqrt holds
\* the arguments np.sqrt was evaluated on.
ecuacion(f, Re, eps, Dd) ==
  IF f <= 0
  THEN [valor |-> Penalizacion, dos_log10 |-> {}, sqrt |-> {}]
  ELSE [valor |-> Div(RaizDen, np_sqrt(f)),
        dos_log10 |-> {Argumento(f, Re, eps, Dd)},
        sqrt |-> {f}]

\* a root finder that starts from what earlier calls left behind
fsolve_con_memoria(f0) == [x |-> numlib.x + llamadas, ier |-> numlib.ier]

\* scipy.optimize.fsolve(ecuacion, f0, full_output=False): the last iterate
\* x and the termination flag ier (1: converged).  With full_output=False
\* the caller receives x alone; ier # 1 only raises a RuntimeWarning.
fsolve(f0) == [x |-> numlib.x, ier |-> numlib.ier]

f_colebrook(Re, eps, Dd) ==
  IF Re <= 0 THEN 0
  ELSE LET f0  == f_haaland(Re, eps, Dd)
           sol == fsolve(f0)
       IN  sol.x

\* 0.25 / log10(eps/(3.7 D) + 5.74/Re^0.9)^2 for Re > 0: numpy's value
f_swamee_jain(Re, eps, Dd) == IF Re <= 0 THEN 0 ELSE numlib.swamee

\* hf = f (L / D) v^2 / (2 g); f in twentieths
perdidas_darcy(f, L, Dd, v) == f * L * Div(carga_cinetica(v), FDen * Dd)

\* hm = K v^2 / (2 g); K in thousandths
perdidas_menores(K_total, v) == Div(K_total * carga_cinetica(v), KDen)

\* the head without the minor loss
carga_sin_menores(z, hf, hm) == z + hf

carga_total(z, hf, hm) == z + hf + hm

\* P = rho g Q H / 1000, counted in units of g CaudalUnidad / 1000
potencia_bomba(r, Qq, H) == r * Div(Qq, CaudalUnidad) * H

\* P / 0.7457, rounded down to the power grid
kw_a_hp(P_kw) == (P_kw \div HpNum) * HpDen + ((P_kw % HpNum) * HpDen) \div HpNum

ZeroDivisionError == [exc |-> "ZeroDivisionError"]

\* the per-station length without the division by the station count
longitud_sin_dividir(L, num_estaciones) == L

\* line 188: L / num_estaciones if num_estaciones > 0 else L
longitud_estacion(L, num_estaciones) ==
  IF num_estaciones > 0 THEN Div(L, num_estaciones) ELSE L

\* the per-station elevation without the division by the station count
elevacion_sin_dividir(z, num_estaciones) == z

\* line 198: z / num_estaciones if num_estaciones > 0 else z
elevacion_estacion(z, num_estaciones) ==
  IF num_estaciones > 0 THEN Div(z, num_estaciones) ELSE z

\* the pump power computed whatever es_bajada is
potencia_siempre(es_bajada, r, Qq, H_estacion) == potencia_bomba(r, Qq, H_estacion)

\* lines 207-211: P_kw
potencia_kw(es_bajada, r, Qq, H_estacion) ==
  IF es_bajada THEN 0 ELSE potencia_bomba(r, Qq, H_estacion)

calcular_tramo(Qq, Dd, L, z, r, m, eps, K_total, num_estaciones, es_bajada) ==
  LET A == area_seccion(Dd) IN
  IF A = 0 THEN ZeroDivisionError                  \* velocidad: Q / A
  ELSE
  LET v   == velocidad(Qq, A)
      hvv == carga_cinetica(v)
  IN
  IF m = 0 THEN ZeroDivisionError                  \* reynolds: ... / mu
  ELSE
  LET Re    == reynolds(r, v, Dd, m)
      f_col == f_colebrook(Re, eps, Dd)
      f_haa == f_haaland(Re, eps, Dd)
      f_swa == f_swamee_jain(Re, eps, Dd)
      L_estacion == longitud_estacion(L, num_estaciones)
      hf_crane   == perdidas_darcy(f_col, L_estacion, Dd, v)
      hf_haaland == perdidas_darcy(f_haa, L_estacion, Dd, v)
      hm         == perdidas_menores(K_total, v)
      z_estacion == elevacion_estacion(z, num_estaciones)
      H_estacion == carga_total(Abs(z_estacion), hf_crane, hm)
      H_total    == H_estacion * num_estaciones
      P_kw == potencia_kw(es_bajada, r, Qq, H_estacion)
      P_hp == IF es_bajada THEN 0 ELSE kw_a_hp(P_kw)
  IN
  [ exc |-> "none",
    area |-> A,
    velocidad |-> v,
    carga_cinetica |-> hvv,
    reynolds |-> Re,
    f_colebrook |-> f_col,
    f_haaland |-> f_haa,
    f_swamee_jain |-> f_swa,
    longitud_estacion |-> L_estacion,
    perdidas_friccion_colebrook |-> hf_crane,
    perdidas_friccion_haaland |-> hf_haaland,
    perdidas_menores |-> hm,
    z_estacion |-> z_estacion,
    carga_estacion |-> H_estacion,
    carga_total |-> H_total,
    potencia_kw |-> P_kw,
    potencia_hp |-> P_hp,
    num_estaciones |-> num_estaciones,
    es_bajada |-> es_bajada ]

Notas(defn) == IF "notas" \in DOMAIN defn THEN defn.notas ELSE ""

calcular_sistema_completo(Qq, Dd, r, m, eps) ==
  LET defs == obtener_definicion_tramos
      res  == [k \in DOMAIN defs |->
                 calcular_tramo(Qq, Dd, defs[k].longitud_tuberia, defs[k].z,
                                r, m, eps, defs[k].K_total,
                                defs[k].num_estaciones, defs[k].es_bajada)]
      falla == {k \in DOMAIN defs : res[k].exc # "none"}
  IN
  IF falla # {}
  THEN res[CHOOSE k \in falla : \A k2 \in falla : k <= k2]
  ELSE [ exc |-> "none",
         val |-> [k \in DOMAIN defs |->
                    res[k] @@ [ distancia |-> defs[k].distancia,
                                altura |-> defs[k].altura,
                                pendiente |-> defs[k].pendiente,
                                longitud_tuberia |-> defs[k].longitud_tuberia,
                                tipo |-> defs[k].tipo,
                                accesorios |-> defs[k].accesorios,
                                notas |-> Notas(defs[k]) ]] ]

(***************************************************************************)
(* core/tramos.py: obtener_elevaciones_acumuladas                          *)
(***************************************************************************)
\* the segments whose end is a point of the profile, segment 8 included
TramosConFinTodos == 1..8

\* line 230: for i in range(1, 8)
TramosConFin == 1..7

RECURSIVE BucleTramos(_, _, _, _)
\* lines 230-239, from segment i on
BucleTramos(i, dist, elev, pts) ==
  IF i \notin TramosConFin THEN [dist |-> dist, elev |-> elev, puntos |-> pts]
  ELSE LET t  == obtener_definicion_tramos[i]
           d2 == dist + t.distancia
           e2 == elev + t.altura
       IN  BucleTramos(i + 1, d2, e2,
             Append(pts, [distancia_acum |-> d2, elevacion |-> e2, tramo |-> i,
                          nombre |-> <<"Fin Tramo", i>>]))

RECURSIVE BucleSubSegmentos(_, _, _, _)
\* lines 242-251, over the remaining sub-segments segs
BucleSubSegmentos(segs, dist, elev, pts) ==
  IF segs = <<>> THEN pts
  ELSE LET seg == Head(segs) IN
       IF seg.altura # None
       THEN LET d2 == dist + seg.distancia
                e2 == elev + seg.altura[1]
            IN  BucleSubSegmentos(Tail(segs), d2, e2,
                  Append(pts, [distancia_acum |-> d2, elevacion |-> e2, tramo |-> 8,
                               nombre |-> <<seg.nombre>>]))
       ELSE BucleSubSegmentos(Tail(segs), dist, elev, pts)

obtener_elevaciones_acumuladas ==
  LET rio == [distancia_acum |-> 0, elevacion |-> 0, tramo |-> 0,
              nombre |-> <<"Rio">>]
      fin == BucleTramos(1, 0, 0, <<rio>>)
  IN  BucleSubSegmentos(obtener_definicion_tramos[8].sub_segmentos,
                        fin.dist, fin.elev, fin.puntos)

(***************************************************************************)
(* Parameter sets and the initial state                                    *)
(***************************************************************************)
Caudales     == {0, CaudalUnidad}
Diametros    == {-DRef, 0, DRef}
Viscosidades == {-1, 0, 1}
Densidades   == 1..MaxRho
Rugosidades  == {46}
Estaciones   == {-1, 0, 1, 2}      \* num_estaciones of a direct call

\* Re > 0: the correlations and the root finder are evaluated
FlujoPositivo(Qq, Dd, r, m) ==
  /\ Dd # 0
  /\ m # 0
  /\ reynolds(r, velocidad(Qq, area_seccion(Dd)), Dd, m) > 0

NumLib ==
  [haaland : 1..MaxF, swamee : 1..MaxF, x : 1..MaxF, ier : {1, 5}]

\* For Re <= 0 the library is never consulted; numlib then holds one
\* arbitrary record that no result may depend on.
NoConsultada == [haaland |-> 1, swamee |-> 1, x |-> 1, ier |-> 1]

\* D < 0 together with mu < 0 gives Re > 0 with a negative relative
\* roughness, which takes the correlations outside the reals; that corner
\* is not among the parameter sets.
Init ==
  /\ Q \in Caudales
  /\ D \in Diametros
  /\ rho \in Densidades
  /\ mu \in Viscosidades
  /\ epsilon \in Rugosidades
  /\ ~(D < 0 /\ mu < 0)
  /\ numlib \in IF FlujoPositivo(Q, D, rho, mu) THEN NumLib ELSE {NoConsultada}
  /\ pc = "inicio"
  /\ resultados = <<>>
  /\ excepcion = "none"
  /\ directo = <<>>
  /\ previo = <<>>
  /\ llamadas = 0
  /\ residuo = <<>>
  /\ puntos = <<>>
  /\ tanque_rompe_presion = <<>>
  /\ dist_puntos = <<>> /\ elev_puntos = <<>> /\ egl_puntos = <<>>
  /\ hgl_puntos = <<>> /\ presion_puntos = <<>> /\ etiquetas = <<>>
  /\ dist_acum = 0 /\ elev_acum = 0 /\ energia_actual = 0
  /\ bombas_x = <<>> /\ bombas_y_antes = <<>> /\ bombas_y_despues = <<>>
  /\ bombas_label = <<>>
  /\ valvulas_x = <<>> /\ valvulas_y = <<>> /\ valvulas_label = <<>>
  /\ hv = 0 /\ num_tramo = 0 /\ est = 0 /\ j = 0 /\ x_inicio = 0
  /\ bitacora = <<>>

(***************************************************************************)
(* The callers: a direct call of calcular_tramo with one segment's         *)
(* registry fields and a chosen station count (a second call keeps         *)
(* everything but the station count), and the dashboard's call of          *)
(* calcular_sistema_completo.                                              *)
(***************************************************************************)
LlamarTramo ==
  /\ pc \in {"inicio", "directo"}
  /\ Len(directo) < 2
  /\ \E t \in DOMAIN obtener_definicion_tramos, n \in Estaciones :
       LET defn == obtener_definicion_tramos[t] IN
       /\ directo # <<>> => (t = directo[1].tramo /\ n # directo[1].n)
       /\ directo' = Append(directo,
            [ tramo |-> t, n |-> n,
              res |-> calcular_tramo(Q, D, defn.longitud_tuberia, defn.z,
                                     rho, mu, epsilon, defn.K_total,
                                     n, defn.es_bajada) ])
  /\ pc' = "directo"
  /\ UNCHANGED <<entradas, resultados, excepcion, previo, llamadas, residuo, traza, puntos>>

CalcularSistema ==
  /\ pc = "inicio"
  /\ LET out == calcular_sistema_completo(Q, D, rho, mu, epsilon) IN
     IF out.exc = "none"
     THEN /\ resultados' = out.val
          /\ pc' = "sistema"
          /\ UNCHANGED excepcion
     ELSE /\ excepcion' = out.exc
          /\ pc' = "error"
          /\ UNCHANGED resultados
  /\ llamadas' = llamadas + 1
  /\ UNCHANGED <<entradas, directo, previo, residuo, traza, puntos>>

\* f in twentieths: -0.25, 0, 0.25 and 1.0
Propuestas == {-5, 0, 5, 20}

\* line 79: the root finder evaluates the residual on a proposal f.  The
\* closure exists only past the guard of lines 67-68, so Re > 0.
EvaluarEcuacion ==
  /\ pc \in {"inicio", "ecuacion"}
  /\ FlujoPositivo(Q, D, rho, mu)
  /\ Len(residuo) < MaxPropuestas
  /\ \E f \in Propuestas :
       residuo' = Append(residuo,
         [f |-> f] @@ ecuacion(f, reynolds(rho, velocidad(Q, area_seccion(D)), D, mu),
                               epsilon, D))
  /\ pc' = "ecuacion"
  /\ UNCHANGED <<entradas, resultados, excepcion, directo, previo, llamadas, traza, puntos>>

\* app.py line 193: sum(r['potencia_kw'] for r in resultados.values())
RECURSIVE SumaPotencias(_, _)
SumaPotencias(res, n) ==
  IF n = 0 THEN 0 ELSE SumaPotencias(res, n - 1) + res[n].potencia_kw

pot_total_kw == SumaPotencias(resultados, Len(resultados))

\* the outcome the caller holds: the result mapping, or the exception
Salida == [exc |-> excepcion, val |-> resultados]

\* A rerun of the script with the same parameters calls the solver again
Recalcular ==
  /\ pc \in {"sistema", "error"}
  /\ llamadas < MaxLlamadas
  /\ previo' = <<Salida>>
  /\ llamadas' = llamadas + 1
  /\ LET out == calcular_sistema_completo(Q, D, rho, mu, epsilon) IN
     IF out.exc = "none"
     THEN /\ resultados' = out.val
          /\ excepcion' = "none"
          /\ pc' = "sistema"
     ELSE /\ excepcion' = out.exc
          /\ resultados' = <<>>
          /\ pc' = "error"
  /\ UNCHANGED <<entradas, directo, residuo, traza, puntos>>

(***************************************************************************)
(* visualizaciones/mapa_piezometrico.py: crear_mapa_piezometrico, the      *)
(* energy trace (lines 26-163).  One action per block of the loop body.    *)
(* bitacora records, in order, which list each step appended to; it is     *)
(* history only and nothing reads it.                                      *)
(***************************************************************************)
\* The registry as crear_mapa_piezometrico reads it (line 28): as defined,
\* or with the optional key 'tanque_rompe_presion' present on one descending
\* segment.  The state keeps the optional keys; definiciones is the registry
\* with them.
Bajadas ==
  {k \in DOMAIN obtener_definicion_tramos : obtener_definicion_tramos[k].es_bajada}

ClavesTanque ==
  {<<>>} \cup {[t \in {k} |-> b] : k \in Bajadas, b \in BOOLEAN}

definiciones ==
  [t \in DOMAIN obtener_definicion_tramos |->
     IF t \in DOMAIN tanque_rompe_presion
     THEN obtener_definicion_tramos[t]
            @@ [tanque_rompe_presion |-> tanque_rompe_presion[t]]
     ELSE obtener_definicion_tramos[t]]

\* lines 59-71: the values of one iteration of `for num_tramo in range(1, 9)`
dist_tramo ==
  IF num_tramo > 7 THEN definiciones[8].distancia
                   ELSE definiciones[num_tramo].distancia
r_tramo == resultados[num_tramo]
n_est   == r_tramo.num_estaciones
L_est   == r_tramo.longitud_estacion
\* a trace drawn with Haaland's loss
hf_est_haaland == r_tramo.perdidas_friccion_haaland

hf_est  == r_tramo.perdidas_friccion_colebrook
hm_est  == r_tramo.perdidas_menores
z_total == definiciones[num_tramo].altura
\* the station's rise without the division by the station count
z_est_sin_dividir == z_total

z_est   == IF n_est > 0 THEN Div(z_total, n_est) ELSE z_total
\* the station's run without the division by the station count
dist_sub_sin_dividir == dist_tramo

dist_sub == Div(dist_tramo, n_est)                          \* line 92

\* a trace whose stations have no tank unless the registry says so
tiene_tanque_por_omision_falso ==
  IF "tanque_rompe_presion" \in DOMAIN definiciones[num_tramo]
  THEN definiciones[num_tramo].tanque_rompe_presion
  ELSE FALSE

\* definiciones[num_tramo].get('tanque_rompe_presion', True)
tiene_tanque ==
  IF "tanque_rompe_presion" \in DOMAIN definiciones[num_tramo]
  THEN definiciones[num_tramo].tanque_rompe_presion
  ELSE TRUE

\* a trace that takes twice the kinetic head
hv_doble == 2 * resultados[1].carga_cinetica

\* line 56: the kinetic head of segment 1, used for every segment
hv_traza == resultados[1].carga_cinetica

\* the head of the whole segment instead of one station's
H_bomba_del_tramo == r_tramo.carga_total

\* a pump that also delivers the kinetic head
H_bomba_con_carga_cinetica == r_tramo.carga_estacion + hv_traza

\* line 79
H_bomba == r_tramo.carga_estacion

\* the sub-step's loss with the sign inverted
perdida_subpaso_invertida(jj) ==
  -(Div(hf_est, n_puntos_sub) + (IF jj = 1 THEN hm_est ELSE 0))

\* a sub-step that forgets the fittings' loss
perdida_subpaso_sin_menores(jj) == Div(hf_est, n_puntos_sub)

\* line 106: hf_est / n_puntos_sub + (hm_est if j == 1 else 0)
perdida_subpaso(jj) ==
  Div(hf_est, n_puntos_sub) + (IF jj = 1 THEN hm_est ELSE 0)

\* the tank's target without the kinetic head
egl_meta_sin_hv == elev_acum

\* line 132: the EGL that makes the gauge pressure zero at the tank
egl_meta == elev_acum + hv

\* lines 111, 151: the hydraulic grade line of a point
hgl_de(energia) == energia - hv

\* the gauge pressure without the kinetic head
presion_sin_hv(energia, elev) == energia - elev

\* lines 112, 152: the gauge pressure of a point
presion_de(energia, elev) == energia - hv - elev

\* a threshold of 0.02 m
Tolerancia_doble == Metro \div 50

\* a threshold of 1000 m
Tolerancia_amplia == 1000 * Metro

\* 0.01 m, the threshold of line 147
Tolerancia == Metro \div 100

\* f'-E{est+1}' if n_est > 1 else ''
SufijoEst == IF n_est > 1 THEN est + 1 ELSE 0

Etiqueta(texto, t, e) == [texto |-> texto, tramo |-> t, est |-> e]

\* a bitacora entry: what was appended, in which station, and the energy
\* and the elevation right after it
Entrada(tipo, e, z) ==
  [tipo |-> tipo, tramo |-> num_tramo, est |-> est, energia |-> e, elev |-> z]

\* `for num_tramo in range(1, 9)` / `for est in range(n_est)`: the tramos
\* after t whose station loop runs at least once
TramosDesde(t) == {k \in t..8 : resultados[k].num_estaciones > 0}

Minimo(S) == CHOOSE k \in S : \A k2 \in S : k <= k2

\* a station loop that runs once more than the station count
SiguienteEstacion_una_de_mas ==
  IF est + 1 <= n_est
  THEN /\ est' = est + 1
       /\ pc' = "estacion"
       /\ UNCHANGED num_tramo
  ELSE IF TramosDesde(num_tramo + 1) # {}
       THEN /\ num_tramo' = Minimo(TramosDesde(num_tramo + 1))
            /\ est' = 0
            /\ pc' = "estacion"
       ELSE /\ pc' = "fin"
            /\ UNCHANGED <<num_tramo, est>>

\* The next iteration after the current station's body
SiguienteEstacion ==
  IF est + 1 < n_est
  THEN /\ est' = est + 1
       /\ pc' = "estacion"
       /\ UNCHANGED num_tramo
  ELSE IF TramosDesde(num_tramo + 1) # {}
       THEN /\ num_tramo' = Minimo(TramosDesde(num_tramo + 1))
            /\ est' = 0
            /\ pc' = "estacion"
       ELSE /\ pc' = "fin"
            /\ UNCHANGED <<num_tramo, est>>

\* lines 26-56
IniciarMapa ==
  /\ pc = "sistema"
  /\ tanque_rompe_presion' \in ClavesTanque
  /\ dist_puntos' = <<0>>
  /\ elev_puntos' = <<0>>
  /\ egl_puntos' = <<0>>
  /\ hgl_puntos' = <<0>>
  /\ presion_puntos' = <<0>>
  /\ etiquetas' = <<Etiqueta("Rio (Captacion)", 0, 0)>>
  /\ dist_acum' = 0 /\ elev_acum' = 0 /\ energia_actual' = 0
  /\ bombas_x' = <<>> /\ bombas_y_antes' = <<>> /\ bombas_y_despues' = <<>>
  /\ bombas_label' = <<>>
  /\ valvulas_x' = <<>> /\ valvulas_y' = <<>> /\ valvulas_label' = <<>>
  /\ hv' = hv_traza
  /\ bitacora' = <<[tipo |-> "punto", tramo |-> 0, est |-> 0,
                    energia |-> 0, elev |-> 0]>>
  /\ IF TramosDesde(1) # {}
     THEN /\ num_tramo' = Minimo(TramosDesde(1))
          /\ pc' = "estacion"
     ELSE /\ num_tramo' = 8
          /\ pc' = "fin"
  /\ est' = 0
  /\ UNCHANGED <<entradas, motor, puntos, j, x_inicio>>

\* lines 75-89, a station of a pump segment: the energy jump
EstacionBomba ==
  /\ pc = "estacion"
  /\ ~r_tramo.es_bajada
  /\ x_inicio' = dist_acum
  /\ bombas_x' = Append(bombas_x, dist_acum)
  /\ bombas_y_antes' = Append(bombas_y_antes, energia_actual)
  /\ energia_actual' = energia_actual + H_bomba
  /\ bombas_y_despues' = Append(bombas_y_despues, energia_actual + H_bomba)
  /\ bombas_label' = Append(bombas_label,
       [ texto |-> "Bomba", tramo |-> num_tramo, est |-> SufijoEst,
         dH |-> H_bomba, P |-> r_tramo.potencia_kw ])
  /\ bitacora' = Append(bitacora, Entrada("bomba", energia_actual + H_bomba, elev_acum))
  /\ j' = 1
  /\ pc' = "punto"
  /\ UNCHANGED <<entradas, motor, puntos, tanque_rompe_presion, perfil, valvulas,
                 dist_acum, elev_acum, hv, num_tramo, est>>

\* lines 75-78, a station of a descending segment: no pump
EstacionGravedad ==
  /\ pc = "estacion"
  /\ r_tramo.es_bajada
  /\ x_inicio' = dist_acum
  /\ j' = 1
  /\ pc' = "punto"
  /\ UNCHANGED <<entradas, motor, puntos, tanque_rompe_presion, perfil, bombas, valvulas,
                 acum, hv, num_tramo, est, bitacora>>

\* lines 95-120: sub-step j of the station
Punto ==
  /\ pc = "punto"
  /\ LET dx == Div(dist_sub * j, n_puntos_sub)              \* dist_sub * frac
         dz == Div(z_est * j, n_puntos_sub)                 \* z_est * frac
         x_actual == x_inicio + dx
         elev_actual == elev_acum + dz
         energia == energia_actual - perdida_subpaso(j)
     IN
     /\ energia_actual' = energia
     /\ dist_puntos' = Append(dist_puntos, x_actual)
     /\ elev_puntos' = Append(elev_puntos, elev_actual)
     /\ egl_puntos' = Append(egl_puntos, energia)
     /\ hgl_puntos' = Append(hgl_puntos, hgl_de(energia))
     /\ presion_puntos' = Append(presion_puntos, presion_de(energia, elev_actual))
     /\ etiquetas' = Append(etiquetas,
          IF j = n_puntos_sub THEN Etiqueta("fin", num_tramo, SufijoEst)
                              ELSE Etiqueta("", 0, 0))
     /\ bitacora' = Append(bitacora, Entrada("punto", energia, elev_actual))
  /\ IF j < n_puntos_sub
     THEN /\ j' = j + 1
          /\ pc' = "punto"
     ELSE /\ pc' = "avance"
          /\ UNCHANGED j
  /\ UNCHANGED <<entradas, motor, puntos, tanque_rompe_presion, bombas, valvulas,
                 dist_acum, elev_acum, hv, num_tramo, est, x_inicio>>

\* lines 122-126
Avance ==
  /\ pc = "avance"
  /\ elev_acum' = elev_acum + z_est
  /\ dist_acum' = dist_acum + dist_sub
  /\ IF r_tramo.es_bajada
     THEN /\ pc' = "control"
          /\ UNCHANGED <<num_tramo, est>>
     ELSE SiguienteEstacion
  /\ UNCHANGED <<entradas, motor, puntos, tanque_rompe_presion, perfil, bombas, valvulas,
                 energia_actual, hv, j, x_inicio, bitacora>>

\* lines 127-153: the pressure-break tank
Tanque ==
  /\ pc = "control"
  /\ tiene_tanque
  /\ LET perdida  == energia_actual - egl_meta
         energia  == energia_actual - perdida
     IN
     /\ valvulas_x' = Append(valvulas_x, dist_acum)
     /\ valvulas_y' = Append(valvulas_y, energia_actual)
     /\ valvulas_label' = Append(valvulas_label,
          [ texto |-> "Tanque rompe-presion", tramo |-> num_tramo,
            est |-> SufijoEst, disipa |-> perdida ])
     /\ energia_actual' = energia
     /\ IF Abs(perdida) > Tolerancia
        THEN /\ dist_puntos' = Append(dist_puntos, dist_acum)
             /\ elev_puntos' = Append(elev_puntos, elev_acum)
             /\ egl_puntos' = Append(egl_puntos, energia)
             /\ hgl_puntos' = Append(hgl_puntos, hgl_de(energia))
             /\ presion_puntos' = Append(presion_puntos, presion_de(energia, elev_acum))
             /\ etiquetas' = Append(etiquetas, Etiqueta("Tanque", num_tramo, SufijoEst))
             /\ bitacora' = bitacora \o <<Entrada("tanque", energia, elev_acum),
                                          Entrada("punto_tanque", energia, elev_acum)>>
        ELSE /\ bitacora' = Append(bitacora, Entrada("tanque", energia, elev_acum))
             /\ UNCHANGED perfil
  /\ SiguienteEstacion
  /\ UNCHANGED <<entradas, motor, puntos, tanque_rompe_presion, bombas,
                 dist_acum, elev_acum, hv, j, x_inicio>>

\* a marker that is appended without its label
Marcador_sin_etiqueta ==
  /\ pc = "control"
  /\ ~tiene_tanque
  /\ valvulas_x' = Append(valvulas_x, dist_acum)
  /\ valvulas_y' = Append(valvulas_y, energia_actual)
  /\ bitacora' = Append(bitacora, Entrada("marcador", energia_actual, elev_acum))
  /\ SiguienteEstacion
  /\ UNCHANGED <<entradas, motor, puntos, tanque_rompe_presion, perfil, bombas, acum,
                 hv, j, x_inicio, valvulas_label>>

\* lines 154-163: no tank, an informational marker only
Marcador ==
  /\ pc = "control"
  /\ ~tiene_tanque
  /\ LET presion_local == energia_actual - hv - elev_acum IN
     /\ valvulas_x' = Append(valvulas_x, dist_acum)
     /\ valvulas_y' = Append(valvulas_y, energia_actual)
     /\ valvulas_label' = Append(valvulas_label,
          [ texto |-> "Gravedad", tramo |-> num_tramo,
            est |-> num_tramo + 1, disipa |-> presion_local ])
  /\ bitacora' = Append(bitacora, Entrada("marcador", energia_actual, elev_acum))
  /\ SiguienteEstacion
  /\ UNCHANGED <<entradas, motor, puntos, tanque_rompe_presion, perfil, bombas, acum,
                 hv, j, x_inicio>>

\* mapa_piezometrico.py line 453, called by app.py line 267 after the trace
PerfilTerreno ==
  /\ pc = "fin"
  /\ puntos' = obtener_elevaciones_acumuladas
  /\ pc' = "terreno"
  /\ UNCHANGED <<entradas, motor, traza>>

Next ==
  \/ LlamarTramo
  \/ CalcularSistema
  \/ Recalcular
  \/ EvaluarEcuacion
  \/ IniciarMapa
  \/ EstacionBomba
  \/ EstacionGravedad
  \/ Punto
  \/ Avance
  \/ Tanque
  \/ Marcador
  \/ PerfilTerreno

Spec == Init /\ [][Next]_vars

(***************************************************************************)
(* crear_mapa_piezometrico as a function of the results mapping it is      *)
(* given.  The friction factor of the engine is a float; on the grid of    *)
(* twentieths the loss of tramo 7 never comes within 0.01 m of its 100 m   *)
(* drop, which the engine does produce (Q = 0.033, D = 0.08,               *)
(* epsilon = 0.000407 leaves 0.005 m).  Here the trace is given the        *)
(* engine's mapping with that one loss chosen within 0.01 m of the drop,   *)
(* on either side of the threshold of line 147.                            *)
(***************************************************************************)
\* the tank of tramo 7 receives drop - hf - hm above its target: the
\* differences d around 0 and around the threshold for which hf is on the grid
Desvios(hm) ==
  {d \in -(Tolerancia + n_puntos_sub)..(Tolerancia + n_puntos_sub) :
     /\ (-obtener_definicion_tramos[7].altura - hm - d) % n_puntos_sub = 0
     /\ Abs(d) < n_puntos_sub \/ Abs(Abs(d) - Tolerancia) < n_puntos_sub}

ResultadosFinos(res) ==
  {[res EXCEPT ![7].perdidas_friccion_colebrook =
      -obtener_definicion_tramos[7].altura - res[7].perdidas_menores - d] :
     d \in Desvios(res[7].perdidas_menores)}

InitMapa ==
  /\ Q = CaudalUnidad
  /\ D = DRef
  /\ rho \in Densidades
  /\ mu = 1
  /\ epsilon \in Rugosidades
  /\ numlib \in {n \in NumLib : n.ier = 1 /\ n.haaland = n.x /\ n.swamee = n.x}
  /\ pc = "sistema"
  /\ resultados \in ResultadosFinos(calcular_sistema_completo(Q, D, rho, mu, epsilon).val)
  /\ excepcion = "none"
  /\ directo = <<>>
  /\ previo = <<>>
  /\ llamadas = 1
  /\ residuo = <<>>
  /\ puntos = <<>>
  /\ tanque_rompe_presion = <<>>
  /\ dist_puntos = <<>> /\ elev_puntos = <<>> /\ egl_puntos = <<>>
  /\ hgl_puntos = <<>> /\ presion_puntos = <<>> /\ etiquetas = <<>>
  /\ dist_acum = 0 /\ elev_acum = 0 /\ energia_actual = 0
  /\ bombas_x = <<>> /\ bombas_y_antes = <<>> /\ bombas_y_despues = <<>>
  /\ bombas_label = <<>>
  /\ valvulas_x = <<>> /\ valvulas_y = <<>> /\ valvulas_label = <<>>
  /\ hv = 0 /\ num_tramo = 0 /\ est = 0 /\ j = 0 /\ x_inicio = 0
  /\ bitacora = <<>>

NextMapa ==
  \/ IniciarMapa
  \/ EstacionBomba
  \/ EstacionGravedad
  \/ Punto
  \/ Avance
  \/ Tanque
  \/ Marcador

SpecMapa == InitMapa /\ [][NextMapa]_vars

(***************************************************************************)
(* Every quotient formed in a reachable state is exact.                    *)
(***************************************************************************)
TramoExacto(L, z, K_total, n) ==
  D # 0 /\ mu # 0 =>
    LET A == area_seccion(D)
        v == velocidad(Q, A)
    IN  /\ Exacta(PiNum * D * D, PiDen * 4)
        /\ Exacta(Q, A)
        /\ Exacta(v * v, 2 * g)
        /\ Exacta(rho * v * D, mu)
        /\ Exacta(carga_cinetica(v), FDen * D)
        /\ Exacta(K_total * carga_cinetica(v), KDen)
        /\ Exacta(Q, CaudalUnidad)
        /\ n > 0 => Exacta(L, n) /\ Exacta(z, n)

AritmeticaExacta ==
  /\ \A k \in DOMAIN obtener_definicion_tramos :
       LET defn == obtener_definicion_tramos[k] IN
       /\ TramoExacto(defn.longitud_tuberia, defn.z, defn.K_total, defn.num_estaciones)
       /\ \A i \in 1..Len(directo) :
            TramoExacto(defn.longitud_tuberia, defn.z, defn.K_total, directo[i].n)
  /\ pc \in {"estacion", "punto", "avance", "control"} =>
       /\ Exacta(z_total, n_est)
       /\ Exacta(dist_tramo, n_est)
       /\ Exacta(hf_est, n_puntos_sub)
       /\ \A i \in 1..n_puntos_sub :
            Exacta(dist_sub * i, n_puntos_sub) /\ Exacta(z_est * i, n_puntos_sub)

(***************************************************************************)
(* Properties of the energy trace                                          *)
(***************************************************************************)
Ultimo(s) == s[Len(s)]

EsPunto(e) == e.tipo \in {"punto", "punto_tanque"}

\* the index in the profile lists of the point logged at bitacora[i]
IndicePunto(i) == Cardinality({k \in 1..i : EsPunto(bitacora[k])})

\* the profile point logged before bitacora[i], as an index of bitacora
PuntoAnterior(i) ==
  CHOOSE a \in 1..(i - 1) :
    /\ EsPunto(bitacora[a])
    /\ \A k \in (a + 1)..(i - 1) : ~EsPunto(bitacora[k])

\* a pump event or a tank reset is logged between bitacora[a] and bitacora[b]
EventoEntre(a, b) ==
  \E k \in (a + 1)..(b - 1) : bitacora[k].tipo \in {"bomba", "tanque"}

PerdidasNoNegativas ==
  \A t \in DOMAIN resultados :
    /\ resultados[t].perdidas_friccion_colebrook >= 0
    /\ resultados[t].perdidas_menores >= 0

\* C1: every recorded pump event raises the energy by exactly the
\* per-station head of its segment: after - before = carga_estacion.
C1_SaltoBomba ==
  /\ Len(bombas_y_antes) = Len(bombas_x)
  /\ Len(bombas_y_despues) = Len(bombas_x)
  /\ Len(bombas_label) = Len(bombas_x)
  /\ \A i \in 1..Len(bombas_x) :
       bombas_y_despues[i] - bombas_y_antes[i]
         = resultados[bombas_label[i].tramo].carga_estacion

\* the whole trace has run with a flowing pipe: a pump event of a
\* two-station segment is recorded, with a positive head and a start above 0
C1_Testigo ==
  /\ pc = "fin"
  /\ hv > 0
  /\ \E i \in 1..Len(bombas_x) :
       /\ resultados[bombas_label[i].tramo].num_estaciones = 2
       /\ bombas_label[i].est = 2
       /\ bombas_y_antes[i] > 0
       /\ bombas_y_despues[i] > bombas_y_antes[i]

\* C2: right after a tank event (flag absent or true) the energy is the
\* local elevation plus the kinetic head, so the gauge pressure
\* energy - hv - elevation is zero, whatever the energy was before.
C2_TanqueReinicia ==
  (bitacora # <<>> /\ Ultimo(bitacora).tipo \in {"tanque", "punto_tanque"}) =>
    /\ energia_actual = elev_acum + hv
    /\ energia_actual - hv - elev_acum = 0
    /\ Ultimo(bitacora).tipo = "punto_tanque" =>
         /\ Ultimo(egl_puntos) = Ultimo(elev_puntos) + hv
         /\ Ultimo(presion_puntos) = 0

\* a tank has just reset an energy that was not at the target, with the flag
\* given explicitly as true on that segment
C2_Testigo ==
  /\ bitacora # <<>>
  /\ Ultimo(bitacora).tipo = "punto_tanque"
  /\ hv > 0
  /\ Ultimo(valvulas_y) # energia_actual
  /\ \E t \in DOMAIN tanque_rompe_presion :
       tanque_rompe_presion[t] /\ Ultimo(bitacora).tramo = t

C4_EGLNoSube ==
  PerdidasNoNegativas =>
    \A i \in 2..Len(bitacora) :
      (EsPunto(bitacora[i]) /\ ~EventoEntre(PuntoAnterior(i), i)) =>
        egl_puntos[IndicePunto(i)] <= egl_puntos[IndicePunto(PuntoAnterior(i))]

\* the whole trace has run: within a station the EGL fell strictly, across a
\* pump it rose, and two consecutive points are separated by a mere marker
C4_Testigo ==
  /\ pc = "fin"
  /\ PerdidasNoNegativas
  /\ \E i \in 2..Len(bitacora) :
       /\ EsPunto(bitacora[i]) /\ PuntoAnterior(i) = i - 1
       /\ egl_puntos[IndicePunto(i)] < egl_puntos[IndicePunto(i - 1)]
  /\ \E i \in 2..Len(bitacora) :
       /\ EsPunto(bitacora[i]) /\ EventoEntre(PuntoAnterior(i), i)
       /\ egl_puntos[IndicePunto(i)] > egl_puntos[IndicePunto(PuntoAnterior(i))]
  /\ \E i \in 3..Len(bitacora) :
       /\ EsPunto(bitacora[i]) /\ bitacora[i - 1].tipo = "marcador"
       /\ PuntoAnterior(i) = i - 2

\* C5: a descending segment's result has potencia_kw = potencia_hp = 0 and
\* no pump event belongs to it: pump events belong to non-descending segments.
C5_BajadaSinBomba ==
  /\ \A t \in DOMAIN resultados :
       resultados[t].es_bajada =>
         /\ resultados[t].potencia_kw = 0
         /\ resultados[t].potencia_hp = 0
         /\ \A i \in 1..Len(bombas_label) : bombas_label[i].tramo # t
         /\ \A i \in 1..Len(bitacora) :
              bitacora[i].tipo = "bomba" => bitacora[i].tramo # t
  /\ \A i \in 1..Len(directo) :
       (directo[i].res.exc = "none" /\ directo[i].res.es_bajada) =>
         /\ directo[i].res.potencia_kw = 0
         /\ directo[i].res.potencia_hp = 0
  /\ \A i \in 1..Len(bombas_label) :
       ~resultados[bombas_label[i].tramo].es_bajada

\* the whole trace has run with a flowing pipe: the descending segments have
\* a positive head and no power, the others have power and their pump events
C5_Testigo ==
  /\ pc = "fin"
  /\ hv > 0
  /\ \A t \in DOMAIN resultados :
       /\ resultados[t].carga_estacion > 0
       /\ ~resultados[t].es_bajada => resultados[t].potencia_kw > 0
  /\ \E t \in DOMAIN resultados : resultados[t].es_bajada
  /\ Len(bombas_x) > 0

(***************************************************************************)
(* Properties of the engine's failure handling                             *)
(***************************************************************************)
\* a result has been handed to a caller
ResultadoEntregado ==
  \/ resultados # <<>>
  \/ \E i \in 1..Len(directo) : directo[i].res.exc = "none"

\* C6: when the root finder ends without converging, f_colebrook surfaces a
\* failure: no result computed from that friction factor reaches a caller.
C6_NoConvergenciaFalla ==
  (FlujoPositivo(Q, D, rho, mu) /\ fsolve(numlib.haaland).ier # 1)
    => ~ResultadoEntregado

\* the root finder ran and did not converge, and a caller has been served
C6_Testigo ==
  /\ FlujoPositivo(Q, D, rho, mu)
  /\ numlib.ier # 1
  /\ pc = "fin"
  /\ resultados[1].f_colebrook = numlib.x

\* C7: calcular_tramo called with a station count <= 0 fails fast instead
\* of returning a result.
C7_EstacionesInvalidasFallan ==
  \A i \in 1..Len(directo) :
    directo[i].n <= 0 => directo[i].res.exc # "none"

\* a call with station count 0 on a flowing pipe has returned
C7_Testigo ==
  /\ FlujoPositivo(Q, D, rho, mu)
  /\ \E i \in 1..Len(directo) :
       /\ directo[i].n = 0
       /\ directo[i].res.exc = "none"
       /\ directo[i].res.carga_total = 0
       /\ directo[i].res.carga_estacion > 0

\* C8: a pipe diameter <= 0 or a viscosity <= 0, negative values included,
\* makes the engine fail fast instead of returning a result.
C8_GeometriaInvalidaFalla ==
  (D <= 0 \/ mu <= 0) => ~ResultadoEntregado

\* a negative diameter has gone through the system solver and the trace
C8_Testigo ==
  /\ D < 0
  /\ Q > 0
  /\ pc = "fin"
  /\ resultados[1].reynolds < 0

\* C9: for Re <= 0 each of the three solvers returns 0 without raising, and
\* the two per-station frictional losses of calcular_tramo are 0.
C9_SinFlujoCero ==
  LET Cero(res) ==
        res.reynolds <= 0 =>
          /\ res.f_colebrook = 0 /\ res.f_haaland = 0 /\ res.f_swamee_jain = 0
          /\ res.perdidas_friccion_colebrook = 0
          /\ res.perdidas_friccion_haaland = 0
  IN
  /\ \A Re \in {-1, 0} :
       /\ f_haaland(Re, epsilon, D) = 0
       /\ f_colebrook(Re, epsilon, D) = 0
       /\ f_swamee_jain(Re, epsilon, D) = 0
  /\ \A t \in DOMAIN resultados : Cero(resultados[t])
  /\ \A i \in 1..Len(directo) :
       directo[i].res.exc = "none" => Cero(directo[i].res)

\* two calls have returned for Re < 0 with a positive kinetic head and a
\* positive length, so that only the friction factor makes the losses vanish
C9_Testigo ==
  /\ Len(directo) = 2
  /\ \A i \in 1..2 : directo[i].res.exc = "none"
  /\ directo[1].res.reynolds < 0
  /\ directo[1].res.carga_cinetica > 0
  /\ directo[1].res.perdidas_menores > 0
  /\ directo[1].res.longitud_estacion > 0

\* the two direct calls are segment 6 with station counts 1 and 2
Tramo6UnaYDos(a, b) ==
  /\ a \in 1..Len(directo) /\ b \in 1..Len(directo)
  /\ directo[a].tramo = 6 /\ directo[b].tramo = 6
  /\ directo[a].n = 1 /\ directo[b].n = 2
  /\ directo[a].res.exc = "none" /\ directo[b].res.exc = "none"

\* C10: for segment 6 with its registry fields, going from 1 to 2 stations
\* halves the per-station length and the per-station elevation, and changes
\* the per-station pump power.
C10_EstacionesCambianPotencia ==
  \A a, b \in 1..2 :
    Tramo6UnaYDos(a, b) =>
      /\ 2 * directo[b].res.longitud_estacion = directo[a].res.longitud_estacion
      /\ 2 * directo[b].res.z_estacion = directo[a].res.z_estacion
      /\ directo[b].res.potencia_kw # directo[a].res.potencia_kw

\* C10 (amended): for segment 6 with its registry fields, going from 1 to 2
\* stations halves the per-station length and the per-station elevation
\* (the registry's z of segment 6 is 0, so both are 0), changes the
\* per-station head, and leaves the pump power at 0 in kW and in HP, segment
\* 6 being descending.
C10_EstacionesTramo6 ==
  \A a, b \in 1..2 :
    Tramo6UnaYDos(a, b) =>
      /\ 2 * directo[b].res.longitud_estacion = directo[a].res.longitud_estacion
      /\ 2 * directo[b].res.z_estacion = directo[a].res.z_estacion
      /\ directo[a].res.z_estacion = 0
      /\ directo[a].res.potencia_kw = 0 /\ directo[b].res.potencia_kw = 0
      /\ directo[a].res.potencia_hp = 0 /\ directo[b].res.potencia_hp = 0
      /\ directo[a].res.perdidas_friccion_colebrook > 0 =>
           directo[b].res.carga_estacion < directo[a].res.carga_estacion

\* segment 6 has been called with 1 and with 2 stations on a flowing pipe
C10_Testigo ==
  /\ FlujoPositivo(Q, D, rho, mu)
  /\ \E a, b \in 1..2 :
       /\ Tramo6UnaYDos(a, b)
       /\ directo[a].res.longitud_estacion > 0
       /\ directo[a].res.perdidas_friccion_colebrook > 0
       /\ directo[a].res.carga_estacion > directo[b].res.carga_estacion

C13_Continuidad ==
  /\ \A s, t \in DOMAIN resultados :
       /\ resultados[s].velocidad = resultados[t].velocidad
       /\ resultados[s].area = resultados[t].area
       /\ resultados[s].carga_cinetica = resultados[t].carga_cinetica
       /\ resultados[s].reynolds = resultados[t].reynolds
  /\ bitacora # <<>> =>
       \A t \in DOMAIN resultados : hv = resultados[t].carga_cinetica

\* the trace has run over all eight segments with a flowing pipe
C13_Testigo ==
  /\ pc = "fin"
  /\ DOMAIN resultados = 1..8
  /\ hv > 0
  /\ resultados[8].velocidad > 0
  /\ resultados[8].reynolds > 0
  /\ \E i \in 1..Len(bitacora) : bitacora[i].tramo = 8

RECURSIVE SumaDistancias(_)
\* the plan distances of segments 1..n added up
SumaDistancias(n) ==
  IF n = 0 THEN 0 ELSE SumaDistancias(n - 1) + obtener_definicion_tramos[n].distancia

RECURSIVE SumaAlturas(_)
SumaAlturas(n) ==
  IF n = 0 THEN 0 ELSE SumaAlturas(n - 1) + obtener_definicion_tramos[n].altura

\* the sub-segments of segment 8 that have a height, in order
SubSegmentosConAltura ==
  SelectSeq(Tramo8.sub_segmentos, LAMBDA s : s.altura # None)

C15_RegistroCoherente ==
  /\ DOMAIN obtener_definicion_tramos = 1..8
  /\ \A t \in DOMAIN obtener_definicion_tramos :
       LET defn == obtener_definicion_tramos[t] IN
       /\ defn.num_estaciones >= 1
       /\ defn.longitud_tuberia >= defn.distancia
       /\ defn.es_bajada <=> defn.altura < 0
  /\ \A t \in DOMAIN resultados :
       /\ resultados[t].num_estaciones >= 1
       /\ resultados[t].longitud_tuberia >= resultados[t].distancia
       /\ resultados[t].es_bajada <=> resultados[t].altura < 0

\* the solver has echoed the registry: it holds descending segments, a level
\* segment that is not descending, and a segment with two stations
C15_Testigo ==
  /\ pc = "sistema"
  /\ \E t \in DOMAIN resultados :
       resultados[t].es_bajada /\ resultados[t].altura < 0
  /\ \E t \in DOMAIN resultados :
       ~resultados[t].es_bajada /\ resultados[t].altura = 0
  /\ \E t \in DOMAIN resultados : resultados[t].num_estaciones = 2

RECURSIVE SumaK(_)
\* count x K added over a fitting inventory
SumaK(accesorios) ==
  IF accesorios = <<>> THEN 0
  ELSE Head(accesorios).cantidad * Head(accesorios).K + SumaK(Tail(accesorios))

\* C16: every registry record's K_total is the sum over its fitting
\* inventory of count x K; checked on the inventories the solver echoes.
C16_KTotalEsSuma ==
  \A t \in DOMAIN resultados :
    /\ resultados[t].accesorios = obtener_definicion_tramos[t].accesorios
    /\ obtener_definicion_tramos[t].K_total = SumaK(resultados[t].accesorios)

\* the solver has used and echoed an inventory whose sum is not K_total,
\* next to segment 8's, whose sum is
C16_Testigo ==
  /\ pc = "sistema"
  /\ resultados[1].carga_cinetica > 0
  /\ SumaK(resultados[1].accesorios) # Tramo1.K_total
  /\ SumaK(resultados[8].accesorios) = Tramo8.K_total
  /\ resultados[1].perdidas_menores * KDen
       = Tramo1.K_total * resultados[1].carga_cinetica

\* the head relations of one segment result res computed with K_total
CargaDelTramo(res, K_total) ==
  /\ res.carga_estacion
       = Abs(res.z_estacion) + res.perdidas_friccion_colebrook + res.perdidas_menores
  /\ res.perdidas_menores * KDen = K_total * res.carga_cinetica
  /\ res.carga_total = res.carga_estacion * res.num_estaciones

\* C17: in every segment result the per-station head is |per-station z| +
\* per-station Colebrook loss + minor loss, the minor loss is K_total x
\* kinetic head whatever the station count, and the segment head is the
\* per-station head x station count.
C17_CargaPorEstacion ==
  /\ \A t \in DOMAIN resultados :
       CargaDelTramo(resultados[t], obtener_definicion_tramos[t].K_total)
  /\ \A i \in 1..Len(directo) :
       directo[i].res.exc = "none" =>
         CargaDelTramo(directo[i].res,
                       obtener_definicion_tramos[directo[i].tramo].K_total)

\* the solver has returned on a flowing pipe: a two-station segment has
\* positive per-station losses and its head counts the minor loss twice
C17_Testigo ==
  /\ pc = "sistema"
  /\ resultados[2].num_estaciones = 2
  /\ resultados[2].perdidas_menores > 0
  /\ resultados[2].perdidas_friccion_colebrook > 0
  /\ resultados[2].z_estacion > 0
  /\ resultados[2].carga_total
       = 2 * Abs(resultados[2].z_estacion)
         + 2 * resultados[2].perdidas_friccion_colebrook
         + 2 * resultados[2].perdidas_menores

\* the index in bitacora of the i-th pump event
BombaEn(i) ==
  CHOOSE p \in 1..Len(bitacora) :
    /\ bitacora[p].tipo = "bomba"
    /\ Cardinality({q \in 1..p : bitacora[q].tipo = "bomba"}) = i

\* C18: every pump event is recorded at the cumulative distance of its
\* station's start, segment start + k x plan distance / station count for
\* station k = 0..n-1, and before any of that station's profile points, so
\* the station's first point already includes the pump head.
C18_BombaAlInicio ==
  /\ Cardinality({q \in 1..Len(bitacora) : bitacora[q].tipo = "bomba"})
       = Len(bombas_x)
  /\ \A i \in 1..Len(bombas_x) :
       LET p == BombaEn(i)
           t == bitacora[p].tramo
           k == bitacora[p].est
           n == obtener_definicion_tramos[t].num_estaciones
       IN
       /\ bombas_label[i].tramo = t
       /\ k \in 0..(n - 1)
       /\ n * (bombas_x[i] - SumaDistancias(t - 1))
            = k * obtener_definicion_tramos[t].distancia
       /\ \A q \in 1..Len(bitacora) :
            (bitacora[q].tipo = "punto" /\ bitacora[q].tramo = t
               /\ bitacora[q].est = k) => q > p
       /\ p < Len(bitacora) =>
            /\ bitacora[p + 1].tipo = "punto"
            /\ bitacora[p + 1].tramo = t /\ bitacora[p + 1].est = k
            /\ egl_puntos[IndicePunto(p + 1)]
                 = bombas_y_antes[i] + resultados[t].carga_estacion
                   - Div(resultados[t].perdidas_friccion_colebrook, n_puntos_sub)
                   - resultados[t].perdidas_menores
            /\ dist_puntos[IndicePunto(p + 1)] > bombas_x[i]

\* the trace has run with a flowing pipe: the second station of a segment
\* has its pump halfway along the segment and its first point above the
\* energy before the pump
C18_Testigo ==
  /\ pc = "fin"
  /\ hv > 0
  /\ \E i \in 1..Len(bombas_x) :
       LET p == BombaEn(i) IN
       /\ bitacora[p].est = 1
       /\ bombas_x[i] > SumaDistancias(bitacora[p].tramo - 1)
       /\ egl_puntos[IndicePunto(p + 1)] > bombas_y_antes[i]

\* bitacora[i] is a sub-step point of a station
EsSubPaso(i) == bitacora[i].tipo = "punto" /\ bitacora[i].tramo >= 1

\* the sub-step number of the point logged at bitacora[i] within its station
SubPaso(i) ==
  Cardinality({q \in 1..i : /\ EsSubPaso(q)
                            /\ bitacora[q].tramo = bitacora[i].tramo
                            /\ bitacora[q].est = bitacora[i].est})

\* C19: over the five sub-steps of a station the energy falls by the
\* per-station frictional loss / 5 at each sub-step and by the whole minor
\* loss at the first only; at the fifth the energy is the energy at the start
\* of the walk minus (frictional + minor loss) and the elevation is the
\* station's start elevation plus height / station count.
C19_SubPasos ==
  \A i \in 2..Len(bitacora) :
    EsSubPaso(i) =>
      LET t   == bitacora[i].tramo
          jj  == SubPaso(i)
          p0  == i - jj
          hf  == resultados[t].perdidas_friccion_colebrook
          hm  == resultados[t].perdidas_menores
          n   == resultados[t].num_estaciones
          egl == egl_puntos[IndicePunto(i)]
      IN
      /\ jj \in 1..n_puntos_sub
      /\ n_puntos_sub * (bitacora[p0].energia - hm - egl) = jj * hf
      /\ jj = 1 =>
           n_puntos_sub * (bitacora[i - 1].energia - egl - hm) = hf
      /\ jj > 1 =>
           n_puntos_sub * (egl_puntos[IndicePunto(i) - 1] - egl) = hf
      /\ jj = n_puntos_sub =>
           /\ egl = bitacora[p0].energia - (hf + hm)
           /\ n * (elev_puntos[IndicePunto(i)] - bitacora[p0].elev)
                = definiciones[t].altura

\* the trace has run with a flowing pipe: the second station of a climbing
\* segment and a station of a descending one have been walked with positive
\* losses
C19_Testigo ==
  /\ pc = "fin"
  /\ hv > 0
  /\ \E i \in 2..Len(bitacora) :
       /\ EsSubPaso(i) /\ SubPaso(i) = n_puntos_sub
       /\ bitacora[i].est = 1
       /\ resultados[bitacora[i].tramo].perdidas_friccion_colebrook > 0
       /\ elev_puntos[IndicePunto(i)] > bitacora[i - n_puntos_sub].elev
  /\ \E i \in 2..Len(bitacora) :
       /\ EsSubPaso(i) /\ SubPaso(i) = n_puntos_sub
       /\ resultados[bitacora[i].tramo].es_bajada
       /\ elev_puntos[IndicePunto(i)] < bitacora[i - n_puntos_sub].elev

\* the index in the valve lists of the event logged at bitacora[p]
IndiceValvula(p) ==
  Cardinality({q \in 1..p : bitacora[q].tipo \in {"tanque", "marcador"}})

\* energy before the tank logged at bitacora[p] minus the tank's target EGL
Disipacion(p) == valvulas_y[IndiceValvula(p)] - (bitacora[p].elev + hv)

\* a vertical point follows the tank logged at bitacora[p]
PuntoVertical(p) ==
  p < Len(bitacora) /\ bitacora[p + 1].tipo = "punto_tanque"

\* the vertical point of the tank logged at bitacora[p] is at the station's
\* end, with the target EGL
PuntoVerticalEnElFin(p) ==
  LET k == IndicePunto(p + 1) IN
  /\ dist_puntos[k] = valvulas_x[IndiceValvula(p)]
  /\ dist_puntos[k] = dist_puntos[k - 1]
  /\ elev_puntos[k] = elev_puntos[k - 1]
  /\ elev_puntos[k] = bitacora[p].elev
  /\ egl_puntos[k] = bitacora[p].elev + hv

TanquesDe(t) ==
  {p \in 1..Len(bitacora) : bitacora[p].tipo = "tanque" /\ bitacora[p].tramo = t}

\* C21: the branch of a descending station whose segment sets the tank flag
\* to false leaves the energy, the cumulative distance, the cumulative
\* elevation and the six profile lists (and the pump lists) as they are and
\* appends exactly one valve marker, at the station's end and at the
\* current energy.  No segment of the registry carries the flag, so with
\* the registry as defined no marker is ever logged and every descending
\* station takes the tank branch.
C21_MarcadorSoloMarca ==
  /\ [][ (pc = "control" /\ ~tiene_tanque) =>
           /\ UNCHANGED <<acum, perfil, bombas>>
           /\ valvulas_x' = Append(valvulas_x, dist_acum)
           /\ valvulas_y' = Append(valvulas_y, energia_actual)
           /\ Len(valvulas_label') = Len(valvulas_label) + 1
           /\ Ultimo(valvulas_label').texto = "Gravedad" ]_vars
  /\ [](tanque_rompe_presion = <<>> =>
          /\ \A t \in DOMAIN obtener_definicion_tramos :
               "tanque_rompe_presion" \notin DOMAIN definiciones[t]
          /\ \A p \in 1..Len(bitacora) : bitacora[p].tipo # "marcador"
          /\ pc = "control" => tiene_tanque
          /\ pc = "fin" =>
               \A t \in Bajadas :
                 Cardinality(TanquesDe(t)) = resultados[t].num_estaciones)

\* a flowing trace has just passed a descending station whose segment sets
\* the flag to false: a marker was logged, no tank
C21_Testigo ==
  /\ hv > 0
  /\ Len(bitacora) > 0
  /\ Ultimo(bitacora).tipo = "marcador"
  /\ Len(valvulas_x) > 0
  /\ Ultimo(valvulas_label).texto = "Gravedad"

\* a fraction <<numerator, denominator>> is a positive number
Positiva(q) == (q[1] > 0 /\ q[2] > 0) \/ (q[1] < 0 /\ q[2] < 0)

\* C22: Colebrook's residual returns, for a proposal f <= 0, one fixed
\* positive number and evaluates neither a square root nor a logarithm;
\* for f > 0 it returns 1/sqrt(f) + 2 log10(eps/D/3.7 + 2.51/(Re sqrt(f))),
\* whose square root and logarithm are taken of positive numbers.
C22_Residuo ==
  \A i \in 1..Len(residuo) :
    LET e  == residuo[i]
        Re == reynolds(rho, velocidad(Q, area_seccion(D)), D, mu)
    IN
    /\ e.f <= 0 =>
         /\ e.valor = Penalizacion /\ Penalizacion > 0
         /\ e.sqrt = {} /\ e.dos_log10 = {}
    /\ e.f > 0 =>
         /\ e.sqrt = {e.f}
         /\ e.valor * np_sqrt(e.f) = RaizDen
         /\ FDen * np_sqrt(e.f) * np_sqrt(e.f) = e.f * RaizDen * RaizDen
         /\ e.dos_log10 =
              {[ rugosa  |-> <<10 * epsilon, 37 * 1000 * D>>,
                 viscosa |-> <<251 * RaizDen, 100 * Re * np_sqrt(e.f)>> ]}
         /\ \A x \in e.dos_log10 : Positiva(x.rugosa) /\ Positiva(x.viscosa)

\* the root finder has proposed f = 0 and then a positive f
C22_Testigo ==
  /\ Len(residuo) = 2
  /\ residuo[1].f = 0 /\ residuo[1].valor = Penalizacion
  /\ residuo[2].f > 0 /\ residuo[2].dos_log10 # {}

\* the gauge pressure right before the pump logged at bitacora[p], the
\* i-th pump event: energy before the pump less the kinetic head and the
\* elevation of the station's start
PresionAntesDeBomba(i, p) == bombas_y_antes[i] - hv - bitacora[p].elev

\* C23: for every pump station the gauge pressure at its last sub-step
\* equals the gauge pressure right before the station's pump (energy before
\* the pump - kinetic head - elevation of the station's start): the pump
\* adds exactly the station's rise and losses.  When the profile point
\* before the pump is not the river's, that is also the pressure recorded
\* at that point.
C23_PresionTrasEstacion ==
  \A i \in 1..Len(bombas_x) :
    LET p == BombaEn(i) IN
    /\ p > 2 /\ EsPunto(bitacora[p - 1]) =>
         presion_puntos[IndicePunto(p - 1)] = PresionAntesDeBomba(i, p)
    /\ p + n_puntos_sub <= Len(bitacora) =>
         /\ EsSubPaso(p + n_puntos_sub)
         /\ SubPaso(p + n_puntos_sub) = n_puntos_sub
         /\ bitacora[p + n_puntos_sub].tramo = bitacora[p].tramo
         /\ bitacora[p + n_puntos_sub].est = bitacora[p].est
         /\ presion_puntos[IndicePunto(p + n_puntos_sub)]
              = PresionAntesDeBomba(i, p)

\* the trace has run with a flowing pipe: the first pump station ends with
\* the negative pressure it started from, and a station that rises (the
\* second of tramo 2) and one that does not (tramo 4) end as they started
C23_Testigo ==
  /\ pc = "fin"
  /\ hv > 0
  /\ Len(bombas_x) = 7
  /\ presion_puntos[IndicePunto(BombaEn(1) + n_puntos_sub)] = -hv
  /\ bitacora[BombaEn(3)].tramo = 2 /\ bitacora[BombaEn(3)].est = 1
  /\ bitacora[BombaEn(6)].tramo = 4
  /\ \A i \in {3, 6} :
       presion_puntos[IndicePunto(BombaEn(i) + n_puntos_sub)]
         = PresionAntesDeBomba(i, BombaEn(i))

\* The parameter set is inside the ranges the dashboard accepts
\* (app.py lines 126-162): Q in [0.005, 0.100] m3/s, D in [0.05, 0.30] m,
\* epsilon in [0.00001, 0.001] m, rho in [900, 1100] kg/m3 and mu in
\* [0.0005, 0.0020] Pa s, in the model's units (mm3/s, mm, micrometres,
\* g/cm3, mPa s).
EnRango ==
  /\ Q >= 5 * 1000 * 1000 /\ Q <= 100 * 1000 * 1000
  /\ D >= 50 /\ D <= 300
  /\ epsilon >= 10 /\ epsilon <= 1000
  /\ rho = 1
  /\ mu \in {1, 2}

\* C24: for every parameter set inside the accepted ranges the gauge
\* pressure at every profile point of the energy trace is >= 0.
C24_PresionNoNegativa ==
  EnRango => \A k \in 1..Len(presion_puntos) : presion_puntos[k] >= 0

\* C24 (amended): the gauge pressure is not bounded below by 0.  Every
\* pump station of tramos 1 to 4 ends with a gauge pressure of minus the
\* kinetic head, because each pump delivers the station's rise and losses
\* and nothing for the velocity; inside the accepted ranges the kinetic
\* head is positive, so those points have a negative gauge pressure.
C24_PresionAlFinDeEstacion ==
  /\ \A i \in 1..Len(bombas_x) :
       LET p == BombaEn(i) IN
       (bitacora[p].tramo <= 4 /\ p + n_puntos_sub <= Len(bitacora)) =>
         presion_puntos[IndicePunto(p + n_puntos_sub)] = -hv
  /\ (EnRango /\ pc \notin {"inicio", "directo", "ecuacion", "error"}) =>
       resultados[1].carga_cinetica > 0
  /\ (EnRango /\ Len(presion_puntos) > n_puntos_sub) =>
       presion_puntos[n_puntos_sub + 1] < 0

\* a trace inside the accepted ranges has finished: the six pump stations
\* of tramos 1 to 4 ended below atmospheric pressure
C24_Testigo ==
  /\ pc = "fin"
  /\ EnRango
  /\ hv > 0
  /\ Cardinality({k \in 1..Len(presion_puntos) : presion_puntos[k] = -hv}) >= 6

\* the energy with which the station of the tank logged at bitacora[p]
\* starts: the energy after the entry that precedes its five sub-steps
EnergiaAlEntrar(p) == bitacora[p - n_puntos_sub - 1].energia

\* C25: at every tank event the recorded dissipation (energy before the
\* tank minus target EGL = elevation + kinetic head) is >= 0 for every
\* parameter set inside the accepted ranges: a tank never raises the energy.
C25_DisipacionNoNegativa ==
  EnRango =>
    \A p \in 1..Len(bitacora) :
      bitacora[p].tipo = "tanque" =>
        /\ valvulas_label[IndiceValvula(p)].disipa >= 0
        /\ bitacora[p].energia <= valvulas_y[IndiceValvula(p)]

\* C25 (amended): the recorded dissipation of a tank is the energy with
\* which its station starts, less the station's frictional (Colebrook) and
\* minor losses, less the target EGL (elevation + kinetic head).  It is
\* negative when the losses exceed the head available over the drop, inside
\* the accepted ranges too, and the tank then raises the energy to its
\* target: the energy after the tank is the target EGL in either case.
C25_DisipacionEsCargaMenosPerdidas ==
  \A p \in 1..Len(bitacora) :
    bitacora[p].tipo = "tanque" =>
      LET t == bitacora[p].tramo
          v == IndiceValvula(p)
      IN
      /\ p > n_puntos_sub + 1
      /\ valvulas_label[v].disipa
           = EnergiaAlEntrar(p)
               - resultados[t].perdidas_friccion_colebrook
               - resultados[t].perdidas_menores
               - (bitacora[p].elev + hv)
      /\ valvulas_label[v].disipa = Disipacion(p)
      /\ bitacora[p].energia = bitacora[p].elev + hv
      /\ Disipacion(p) < 0 <=> bitacora[p].energia > valvulas_y[v]

\* a trace inside the accepted ranges has finished and the tank of tramo 5
\* has raised the energy: the losses of its station exceeded the drop
C25_Testigo ==
  /\ pc = "fin"
  /\ EnRango
  /\ \E p \in 1..Len(bitacora) :
       /\ bitacora[p].tipo = "tanque" /\ bitacora[p].tramo = 5
       /\ valvulas_label[IndiceValvula(p)].disipa < 0
       /\ bitacora[p].energia > valvulas_y[IndiceValvula(p)]
       /\ resultados[5].perdidas_friccion_colebrook
            > -obtener_definicion_tramos[5].altura

\* the EGL of the profile point emitted last before the entry bitacora[p]
UltimoEGLAntes(p) == egl_puntos[IndicePunto(p)]

\* C26: whenever a pump event is recorded, its before-energy equals the
\* EGL of the most recently emitted profile point.
C26_BombaDesdeElUltimoPunto ==
  \A i \in 1..Len(bombas_x) :
    bombas_y_antes[i] = UltimoEGLAntes(BombaEn(i))

\* C26 (amended): the before-energy of a pump event equals the EGL of the
\* most recently emitted profile point, unless the station before it ended
\* in a tank that appended no point (a difference of at most 0.01 m between
\* the energy and the tank's target): the before-energy is then the tank's
\* target, elevation + kinetic head, within 0.01 m of that EGL.
C26_BombaDesdeElUltimoPuntoOTanque ==
  \A i \in 1..Len(bombas_x) :
    LET p == BombaEn(i) IN
    IF p > 1 /\ bitacora[p - 1].tipo = "tanque"
    THEN /\ bombas_y_antes[i] = bitacora[p - 1].elev + hv
         /\ Abs(bombas_y_antes[i] - UltimoEGLAntes(p)) <= Metro \div 100
         /\ bombas_y_antes[i] - UltimoEGLAntes(p)
              = -valvulas_label[IndiceValvula(p - 1)].disipa
    ELSE bombas_y_antes[i] = UltimoEGLAntes(p)

\* the tank of tramo 7 has received the water 0.01 m or less from its
\* target and appended no point; the pump of tramo 8 starts from the target,
\* which is not the EGL of the last point
C26_Testigo ==
  /\ pc = "fin"
  /\ hv > 0
  /\ Len(bombas_x) = 7
  /\ bitacora[BombaEn(7)].tramo = 8
  /\ bitacora[BombaEn(7) - 1].tipo = "tanque"
  /\ bombas_y_antes[7] # UltimoEGLAntes(BombaEn(7))

\* the sum of the heights of the first k sub-segments of segment 8 that
\* have one
RECURSIVE SumaSubAlturas(_)
SumaSubAlturas(k) ==
  IF k = 0 THEN 0
  ELSE SumaSubAlturas(k - 1) + SubSegmentosConAltura[k].altura[1]

\* C27: the elevation of the last profile point of the energy trace, the
\* sum of the signed heights of the eight segments and the elevation of the
\* last point of the cumulative-elevation query are all equal, and the last
\* profile point's distance is the sum of the eight plan distances.
C27_FinalesIguales ==
  pc = "terreno" =>
    /\ Ultimo(elev_puntos) = SumaAlturas(8)
    /\ Ultimo(puntos).elevacion = SumaAlturas(8)
    /\ Ultimo(dist_puntos) = SumaDistancias(8)

\* the trace and the query have both run, with water flowing: they end at
\* the same distance and at different elevations
C27_Testigo ==
  /\ pc = "terreno"
  /\ hv > 0
  /\ Ultimo(bitacora).tramo = 8
  /\ Ultimo(dist_puntos) = SumaDistancias(8)
  /\ Ultimo(dist_puntos) = Ultimo(puntos).distancia_acum
  /\ Ultimo(elev_puntos) = SumaAlturas(8)
  /\ Ultimo(elev_puntos) = 100 * Metro
  /\ Ultimo(puntos).elevacion
       = SumaAlturas(7) + SumaSubAlturas(Len(SubSegmentosConAltura))
  /\ Ultimo(puntos).elevacion = 60 * Metro

\* the power of the first n pump events of the trace
RECURSIVE PotenciaDeBombas(_)
PotenciaDeBombas(n) ==
  IF n = 0 THEN 0 ELSE PotenciaDeBombas(n - 1) + bombas_label[n].P

\* C28: the total required power shown by the dashboard equals the sum,
\* over every pump station of the system (each pump event of the energy
\* trace), of that station's pump power.
C28_PotenciaTotalPorEstacion ==
  pc = "fin" => pot_total_kw = PotenciaDeBombas(Len(bombas_x))

\* the dashboard has computed its total and drawn the trace of a flowing
\* system: seven pump events, and a total that leaves out the second
\* stations of tramos 2 and 3
C28_Testigo ==
  /\ pc = "fin"
  /\ hv > 0
  /\ Len(bombas_x) = 7
  /\ resultados[2].num_estaciones = 2 /\ resultados[3].num_estaciones = 2
  /\ resultados[2].potencia_kw > 0
  /\ PotenciaDeBombas(Len(bombas_x)) - pot_total_kw
       = resultados[2].potencia_kw + resultados[3].potencia_kw

\* the entries of kind `tipos` logged for station e of tramo t
EntradasDe(tipos, t, e) ==
  {p \in 1..Len(bitacora) :
     /\ bitacora[p].tipo \in tipos
     /\ bitacora[p].tramo = t /\ bitacora[p].est = e}

\* the stations of the registry: <<tramo, station index>>
EstacionesDelRegistro ==
  {<<t, e>> \in (1..8) \X (0..1) : e < obtener_definicion_tramos[t].num_estaciones}

\* C29: one run of the trace over the registry visits the segments in the
\* order 1..8 and each segment's stations in order; it records one pump
\* event per station of each non-descending segment (7) and one valve or
\* tank event per station of each descending segment (3), and emits the
\* initial point, 5 profile points per station (50) and at most one
\* vertical point per tank event.
C29_UnaPasadaPorElRegistro ==
  /\ \A a, b \in 1..Len(bitacora) :
       a < b =>
         \/ bitacora[a].tramo < bitacora[b].tramo
         \/ /\ bitacora[a].tramo = bitacora[b].tramo
            /\ bitacora[a].est <= bitacora[b].est
  /\ \A p \in 2..Len(bitacora) :
       <<bitacora[p].tramo, bitacora[p].est>> \in EstacionesDelRegistro
  /\ \A p \in 2..Len(bitacora) :
       \/ bitacora[p].tramo = bitacora[p - 1].tramo + 1 /\ bitacora[p].est = 0
       \/ /\ bitacora[p].tramo = bitacora[p - 1].tramo
          /\ bitacora[p].est \in {bitacora[p - 1].est, bitacora[p - 1].est + 1}
  /\ \A s \in EstacionesDelRegistro :
       LET baja == obtener_definicion_tramos[s[1]].es_bajada IN
       /\ Cardinality(EntradasDe({"bomba"}, s[1], s[2])) <= (IF baja THEN 0 ELSE 1)
       /\ Cardinality(EntradasDe({"tanque", "marcador"}, s[1], s[2]))
            <= (IF baja THEN 1 ELSE 0)
       /\ Cardinality(EntradasDe({"punto"}, s[1], s[2])) <= n_puntos_sub
       /\ Cardinality(EntradasDe({"punto_tanque"}, s[1], s[2]))
            <= Cardinality(EntradasDe({"tanque"}, s[1], s[2]))
       /\ pc \in {"fin", "terreno"} =>
            /\ Cardinality(EntradasDe({"bomba"}, s[1], s[2])) = (IF baja THEN 0 ELSE 1)
            /\ Cardinality(EntradasDe({"tanque", "marcador"}, s[1], s[2]))
                 = (IF baja THEN 1 ELSE 0)
            /\ Cardinality(EntradasDe({"punto"}, s[1], s[2])) = n_puntos_sub
  /\ pc \in {"fin", "terreno"} =>
       /\ Len(bombas_x) = 7
       /\ Len(valvulas_x) = 3
       /\ Cardinality({p \in 1..Len(bitacora) : bitacora[p].tipo = "punto"})
            = 1 + 50
       /\ Len(dist_puntos) >= 1 + 50
       /\ Len(dist_puntos) <= 1 + 50 + 3
       /\ Len(dist_puntos)
            = 1 + 50 + Cardinality({p \in 1..Len(bitacora) :
                                      bitacora[p].tipo = "punto_tanque"})
  /\ Len(bitacora) > 0 =>
       /\ bitacora[1].tipo = "punto" /\ bitacora[1].tramo = 0
       /\ Cardinality({p \in 1..Len(bitacora) : bitacora[p].tipo = "bomba"})
            = Len(bombas_x)
       /\ Cardinality({p \in 1..Len(bitacora) :
                         bitacora[p].tipo \in {"tanque", "marcador"}})
            = Len(valvulas_x)
       /\ Cardinality({p \in 1..Len(bitacora) : EsPunto(bitacora[p])})
            = Len(dist_puntos)

\* a trace of a flowing system over a registry with one marker has
\* finished: seven pump events, two tanks with their vertical points and
\* one marker, 53 profile points
C29_Testigo ==
  /\ pc = "fin"
  /\ hv > 0
  /\ Len(bombas_x) = 7 /\ Len(valvulas_x) = 3
  /\ Cardinality({p \in 1..Len(bitacora) : bitacora[p].tipo = "marcador"}) = 1
  /\ Len(dist_puntos) = 1 + 50 + 2
  /\ Ultimo(bitacora).tramo = 8

\* the sequences of a tuple all have the length n
TodasDeLargo(listas, n) == \A k \in DOMAIN listas : Len(listas[k]) = n

\* C30: after every append step of the trace the six profile lists have
\* equal length, the four pump-event lists have equal length and the three
\* valve-event lists have equal length; a step that appends to one list of
\* a group appends one element to each list of that group.
C30_ListasParejas ==
  /\ [](/\ TodasDeLargo(perfil, Len(dist_puntos))
        /\ TodasDeLargo(bombas, Len(bombas_x))
        /\ TodasDeLargo(valvulas, Len(valvulas_x)))
  /\ [][ /\ \E d \in {0, 1} : TodasDeLargo(perfil', Len(dist_puntos) + d)
         /\ \E d \in {0, 1} : TodasDeLargo(bombas', Len(bombas_x) + d)
         /\ \E d \in {0, 1} : TodasDeLargo(valvulas', Len(valvulas_x) + d)
         /\ pc \in {"punto"} => Len(dist_puntos') = Len(dist_puntos) + 1
       ]_vars

\* the trace of a flowing system has finished with every kind of append
\* made: 53 profile points, 7 pump events, 3 valve events (one a marker)
C30_Testigo ==
  /\ pc = "fin"
  /\ hv > 0
  /\ TodasDeLargo(perfil, 53)
  /\ TodasDeLargo(bombas, 7)
  /\ TodasDeLargo(valvulas, 3)
  /\ \E k \in 1..3 : valvulas_label[k].texto = "Gravedad"
  /\ \E k \in 1..3 : valvulas_label[k].texto = "Tanque rompe-presion"

====
